---- MODULE Spec2Model ----
(***************************************************************************)
(* A model of jfjson's converter (src/src/jfjson/core.py): read_rec /      *)
(* read_class_instance turn decoded json into typed objects, write_rec /   *)
(* write_class_instance turn objects back into json.                       *)
(*                                                                         *)
(* Python strings are sequences of one-character strings, so that          *)
(* concatenation and endswith(".") are computed, not assumed.              *)
(***************************************************************************)
EXTENDS Integers, Sequences, FiniteSets, TLC

(***************************************************************************)
(* Python values.  Every value is a record of the same shape:              *)
(*   kind  : "null" "bool" "int" "float" "str" "bytes" "list" "dict"       *)
(*           "obj" (a class instance) "enum" (an enum member)              *)
(*   n     : the number of a bool / int / float (floats here are whole)    *)
(*   s     : the characters of a str / bytes, the member name of an enum   *)
(*   keys  : the keys of a dict, the field names of an obj, in order       *)
(*   items : the elements of a list, the values of a dict / obj, in order  *)
(*   cls   : the class name of an obj / enum                               *)
(***************************************************************************)
Val(kind, n, s, keys, items, cls) ==
    [kind |-> kind, n |-> n, s |-> s, keys |-> keys, items |-> items, cls |-> cls]

None == Val("null", 0, <<>>, <<>>, <<>>, "")
BoolV(b) == Val("bool", IF b THEN 1 ELSE 0, <<>>, <<>>, <<>>, "")
IntV(n) == Val("int", n, <<>>, <<>>, <<>>, "")
FloatV(n) == Val("float", n, <<>>, <<>>, <<>>, "")
StrV(chars) == Val("str", 0, chars, <<>>, <<>>, "")
BytesV(chars) == Val("bytes", 0, chars, <<>>, <<>>, "")
ListV(items) == Val("list", 0, <<>>, <<>>, items, "")
DictV(keys, items) == Val("dict", 0, <<>>, keys, items, "")
ObjV(cls, keys, items) == Val("obj", 0, <<>>, keys, items, cls)
EnumV(cls, name) == Val("enum", 0, name, <<>>, <<>>, cls)

(***************************************************************************)
(* Python type objects, as the typing module exposes them to read_rec:     *)
(*   kind "any"    typing.Any                                              *)
(*   kind "leaf"   type(None), bool, int, float, str (name says which)     *)
(*   kind "list"   List[args[1]]                                           *)
(*   kind "dict"   Dict[args[1], args[2]]                                  *)
(*   kind "union"  Union[args...]  (Optional[X] is Union[X, None])         *)
(*   kind "class"  a user class with annotations (name says which)         *)
(*   kind "enum"   an Enum subclass (name says which)                      *)
(*   kind "tuple"  a tuple of types, the value of __args__                 *)
(*   kind "none"   the object None, the default of getattr(.., None)       *)
(***************************************************************************)
Ty(kind, name, args) == [kind |-> kind, name |-> name, args |-> args]

AnyT == Ty("any", "Any", <<>>)
NoneType == Ty("leaf", "NoneType", <<>>)
BoolT == Ty("leaf", "bool", <<>>)
IntT == Ty("leaf", "int", <<>>)
FloatT == Ty("leaf", "float", <<>>)
StrT == Ty("leaf", "str", <<>>)
ListOf(t) == Ty("list", "List", <<t>>)
DictOf(k, v) == Ty("dict", "Dict", <<k, v>>)
UnionOf(alts) == Ty("union", "Union", alts)
OptionalOf(t) == UnionOf(<<t, NoneType>>)
ClassT(name) == Ty("class", name, <<>>)
EnumT(name) == Ty("enum", name, <<>>)
TupleOf(ts) == Ty("tuple", "", ts)
NoArgs == Ty("none", "", <<>>)

\* getattr(target, "__args__", None)
type_args(target) ==
    IF target.kind \in {"list", "dict", "union"} THEN TupleOf(target.args) ELSE NoArgs

\* The builtin classes list and dict, and the special form typing.Union
ListClass == Ty("builtin", "list", <<>>)
DictClass == Ty("builtin", "dict", <<>>)
UnionForm == Ty("special", "Union", <<>>)

\* getattr(target, "__origin__", target)
origin(target) ==
    CASE target.kind = "list" -> ListClass
      [] target.kind = "dict" -> DictClass
      [] target.kind = "union" -> UnionForm
      [] OTHER -> target

\* type(obj) as isinstance would see it: a bool is an int
type_bool_is_int(obj) ==
    CASE obj.kind = "null" -> NoneType
      [] obj.kind \in {"bool", "int"} -> IntT
      [] obj.kind = "float" -> FloatT
      [] obj.kind = "str" -> StrT
      [] obj.kind = "list" -> Ty("builtin", "list", <<>>)
      [] obj.kind = "dict" -> Ty("builtin", "dict", <<>>)
      [] obj.kind = "bytes" -> Ty("builtin", "bytes", <<>>)
      [] obj.kind = "enum" -> Ty("enum", obj.cls, <<>>)
      [] OTHER -> Ty("class", obj.cls, <<>>)

\* type(obj)
type(obj) ==
    CASE obj.kind = "null" -> NoneType
      [] obj.kind = "bool" -> BoolT
      [] obj.kind = "int" -> IntT
      [] obj.kind = "float" -> FloatT
      [] obj.kind = "str" -> StrT
      [] obj.kind = "list" -> Ty("builtin", "list", <<>>)
      [] obj.kind = "dict" -> Ty("builtin", "dict", <<>>)
      [] obj.kind = "bytes" -> Ty("builtin", "bytes", <<>>)
      [] obj.kind = "enum" -> Ty("enum", obj.cls, <<>>)
      [] OTHER -> Ty("class", obj.cls, <<>>)

InSeq(x, seq) == \E i \in 1..Len(seq) : seq[i] = x

\* str(i) for a list index i >= 0
DigitChar(d) ==
    CASE d = 0 -> "0" [] d = 1 -> "1" [] d = 2 -> "2" [] d = 3 -> "3" [] d = 4 -> "4"
      [] d = 5 -> "5" [] d = 6 -> "6" [] d = 7 -> "7" [] d = 8 -> "8" [] d = 9 -> "9"

RECURSIVE IntStr(_)
IntStr(i) == IF i < 10 THEN <<DigitChar(i)>> ELSE IntStr(i \div 10) \o <<DigitChar(i % 10)>>

\* loc.endswith(".")
endswith_dot(loc) == Len(loc) > 0 /\ loc[Len(loc)] = "."

(***************************************************************************)
(* The classes conversions are made to and from: those of the test suite   *)
(* (E, C, T, B, A, D) and M, a class with one Dict[str, int] field.        *)
(* A field is its name, its annotation, whether the constructor requires   *)
(* it, and its default otherwise.                                          *)
(***************************************************************************)
Field(name, ty, required, default) ==
    [name |-> name, ty |-> ty, required |-> required, default |-> default]

\* target.__annotations__, in declaration order
annotations(cls) ==
    CASE cls = "C" -> << Field(<<"s">>, StrT, TRUE, None) >>
      [] cls = "T" -> << Field(<<"x">>, StrT, TRUE, None),
                         Field(<<"y">>, IntT, FALSE, IntV(0)),
                         Field(<<"z">>, OptionalOf(FloatT), FALSE, None) >>
      [] cls = "B" -> << Field(<<"c", "s">>, ListOf(ClassT("C")), TRUE, None),
                         Field(<<"t">>, ClassT("T"), TRUE, None) >>
      [] cls = "A" -> << Field(<<"b">>, ClassT("B"), TRUE, None) >>
      [] cls = "D" -> << Field(<<"x">>, IntT, TRUE, None),
                         Field(<<"y">>, IntT, TRUE, None) >>
      [] cls = "M" -> << Field(<<"m">>, DictOf(StrT, IntT), TRUE, None) >>
      [] OTHER -> << >>

\* How an instance exposes its fields: "dict" (it has __dict__), "namedtuple"
\* (it has _asdict() and no __dict__), "slots" (it has neither).
class_repr(cls) ==
    CASE cls \in {"C", "A", "M"} -> "dict"
      [] cls \in {"T", "B"} -> "namedtuple"
      [] OTHER -> "slots"

\* The members of an enum class: name and value, in declaration order.
enum_members(cls) ==
    CASE cls = "E" -> << [name |-> <<"A">>, value |-> StrV(<<"a">>)],
                         [name |-> <<"B">>, value |-> IntV(1)] >>
      [] OTHER -> << >>

(***************************************************************************)
(* Outcomes of a call: a returned value, or a raised exception.            *)
(*   status : "ok", "JsonConversionError", or the name of another          *)
(*            exception that escapes ("TypeError")                         *)
(*   val    : the returned value (None when raising)                       *)
(*   msg    : the exception's msg, kept structured (see Msg)               *)
(*   loc    : the exception's loc, as characters                           *)
(*   cause  : the exception being handled when this one was raised         *)
(*            (__context__), "" if none                                    *)
(***************************************************************************)
Msg(text, found, types, keys, vals, cls) ==
    [text |-> text, found |-> found, types |-> types, keys |-> keys, vals |-> vals,
     cls |-> cls]

NoMsg == Msg("", "", <<>>, <<>>, <<>>, "")

Return(v) == [status |-> "ok", val |-> v, msg |-> NoMsg, loc |-> <<>>, cause |-> ""]

\* raise JsonConversionError(msg, loc), while handling `cause`
JsonConversionError(msg, loc, cause) ==
    [status |-> "JsonConversionError", val |-> None, msg |-> msg, loc |-> loc,
     cause |-> cause]

\* an exception of another class escaping the call
Escapes(exc, text) ==
    [status |-> exc, val |-> None, msg |-> Msg(text, "", <<>>, <<>>, <<>>, ""),
     loc |-> <<>>, cause |-> ""]

\* Python's == between json leaves: bool, int and float compare as numbers
PyEq(a, b) ==
    LET num == {"bool", "int", "float"}
    IN  \/ a.kind \in num /\ b.kind \in num /\ a.n = b.n
        \/ a.kind = "str" /\ b.kind = "str" /\ a.s = b.s

\* target(obj) for an enum class: the member whose value equals obj, or ValueError
enum_lookup(target, obj) ==
    LET ms == enum_members(target.name)
        hits == { i \in 1..Len(ms) : PyEq(ms[i].value, obj) }
    IN  IF hits = {}
        THEN Escapes("ValueError", "is not a valid enum value")
        ELSE Return(EnumV(target.name, ms[CHOOSE i \in hits : \A j \in hits : i <= j].name))

\* The index of the field called key in attrs, 0 if there is none
field_index(attrs, key) ==
    IF \E i \in 1..Len(attrs) : StrV(attrs[i].name) = key
    THEN CHOOSE i \in 1..Len(attrs) : StrV(attrs[i].name) = key
    ELSE 0

\* target(**kwargs): the constructor of a class (or of an enum class, which
\* needs a positional value and so rejects every keyword call).
construct(target, keys, vals) ==
    LET attrs == annotations(target.name)
        given(i) == \E k \in 1..Len(keys) : keys[k] = StrV(attrs[i].name)
        arg(i) == vals[CHOOSE k \in 1..Len(keys) : keys[k] = StrV(attrs[i].name)]
    IN  IF target.kind # "class"
        THEN Escapes("TypeError", "missing 1 required positional argument")
        ELSE IF \E i \in 1..Len(attrs) : attrs[i].required /\ ~given(i)
        THEN Escapes("TypeError", "missing 1 required positional argument")
        ELSE Return(ObjV(target.name,
                         [i \in 1..Len(attrs) |-> StrV(attrs[i].name)],
                         [i \in 1..Len(attrs) |->
                             IF given(i) THEN arg(i) ELSE attrs[i].default]))

\* If the given type is a valid target when reading a dict.
valid_type_for_dict(t) ==
    /\ t \notin {NoneType, StrT, IntT, FloatT, BoolT}
    /\ origin(t) # ListClass

\* is_optional without the test that None is among the alternatives
is_optional_any_union(target) == origin(target) = UnionForm

\* is_optional = origin is Union and type(None) in type_args
is_optional(target) ==
    origin(target) = UnionForm /\ InSeq(NoneType, type_args(target).args)

\* possibilities cut to the first list type: a union resolved by priority
list_possibilities_first(targs) ==
    LET all == SelectSeq(targs.args, LAMBDA t : origin(t) = ListClass)
    IN  IF all = <<>> THEN all ELSE <<all[1]>>

\* possibilities = [t for t in type_args if getattr(t, "__origin__", None) is list]
list_possibilities(targs) == SelectSeq(targs.args, LAMBDA t : origin(t) = ListClass)

\* extra_attrs stopping at the first unknown key
extra_attrs_first(obj, attrs) ==
    LET all == SelectSeq(obj.keys, LAMBDA key : field_index(attrs, key) = 0)
    IN  IF all = <<>> THEN all ELSE <<all[1]>>

\* extra_attrs = [key for key in obj if key not in attrs]
extra_attrs(obj, attrs) == SelectSeq(obj.keys, LAMBDA key : field_index(attrs, key) = 0)

\* bad_keys stopping at the first key that is not a string
bad_keys_first(obj) ==
    LET all == SelectSeq(obj.keys, LAMBDA key : key.kind # "str")
    IN  IF all = <<>> THEN all ELSE <<all[1]>>

\* bad_keys = [key for key in obj if not isinstance(key, str)]
bad_keys(obj) == SelectSeq(obj.keys, LAMBDA key : key.kind # "str")

RECURSIVE read_rec(_, _, _)
RECURSIVE read_elems(_, _, _, _, _)
RECURSIVE read_values(_, _, _, _, _)
RECURSIVE read_kwargs(_, _, _, _, _)

\* [read_rec(o, inner_type, loc + f"[{i}]") for i, o in enumerate(obj)],
\* from element i (1-based here) on; acc holds the elements already read.
read_elems(items, inner_type, loc, i, acc) ==
    IF i > Len(items)
    THEN Return(ListV(acc))
    ELSE LET r == read_rec(items[i], inner_type, loc \o <<"[">> \o IntStr(i - 1) \o <<"]">>)
         IN  IF r.status # "ok" THEN r
             ELSE read_elems(items, inner_type, loc, i + 1, Append(acc, r.val))

\* {key: read_rec(value, value_type, loc + key) for key, value in obj.items()}
read_values(obj, value_type, loc, i, acc) ==
    IF i > Len(obj.keys)
    THEN Return(DictV(obj.keys, acc))
    ELSE LET r == read_rec(obj.items[i], value_type, loc \o obj.keys[i].s)
         IN  IF r.status # "ok" THEN r
             ELSE read_values(obj, value_type, loc, i + 1, Append(acc, r.val))

\* {key: read_rec(value, attrs[key], sub_loc + key) for key, value in obj.items()}
read_kwargs(obj, attrs, sub_loc, i, acc) ==
    IF i > Len(obj.keys)
    THEN Return(DictV(obj.keys, acc))
    ELSE LET r == read_rec(obj.items[i], attrs[field_index(attrs, obj.keys[i])].ty,
                           sub_loc \o obj.keys[i].s)
         IN  IF r.status # "ok" THEN r
             ELSE read_kwargs(obj, attrs, sub_loc, i + 1, Append(acc, r.val))

\* read_class_instance as it was before the location was kept apart from the
\* prefix of its fields' locations: loc itself is given the trailing "."
read_class_instance_loc_reassigned(obj, target, loc) ==
    IF target.kind \notin {"class", "enum"}
    THEN JsonConversionError(
             Msg("Target must be a type, but was", "", <<target>>, <<>>, <<>>, ""), loc, "")
    ELSE
    LET attrs == annotations(target.name)
        extra == extra_attrs(obj, attrs)
        loc1 == IF endswith_dot(loc) THEN loc ELSE loc \o <<".">>
        kwargs == read_kwargs(obj, attrs, loc1, 1, <<>>)
        made == construct(target, kwargs.val.keys, kwargs.val.items)
    IN  IF extra # <<>>
        THEN JsonConversionError(
                 Msg("Unknown attributes. Was expecting, but found", "", <<>>,
                     extra,
                     [i \in 1..Len(attrs) |-> StrV(attrs[i].name)], ""),
                 loc, "")
        ELSE IF kwargs.status # "ok" THEN kwargs
        ELSE IF made.status # "ok"
        THEN JsonConversionError(
                 Msg("Object creation failed", "", <<>>, kwargs.val.keys,
                     kwargs.val.items, target.name),
                 loc1, made.status)
        ELSE made

read_class_instance(obj, target, loc) ==
    IF target.kind \notin {"class", "enum"}
    THEN JsonConversionError(
             Msg("Target must be a type, but was", "", <<target>>, <<>>, <<>>, ""), loc, "")
    ELSE
    LET attrs == annotations(target.name)
        extra == extra_attrs(obj, attrs)
        sub_loc == IF endswith_dot(loc) THEN loc ELSE loc \o <<".">>
        kwargs == read_kwargs(obj, attrs, sub_loc, 1, <<>>)
        made == construct(target, kwargs.val.keys, kwargs.val.items)
    IN  IF extra # <<>>
        THEN JsonConversionError(
                 Msg("Unknown attributes. Was expecting, but found", "", <<>>,
                     extra,
                     [i \in 1..Len(attrs) |-> StrV(attrs[i].name)], ""),
                 loc, "")
        ELSE IF kwargs.status # "ok" THEN kwargs
        ELSE IF made.status # "ok"
        THEN JsonConversionError(
                 Msg("Object creation failed", "", <<>>, kwargs.val.keys,
                     kwargs.val.items, target.name),
                 loc, made.status)
        ELSE made

read_rec(obj, target, loc) ==
    LET type_err == JsonConversionError(
            Msg("Found, but was expecting", type(obj).name, <<target>>, <<>>, <<>>, ""),
            loc, "")
    IN
    \* special case: do no type checking or additional parsing
    IF target = AnyT THEN Return(obj)
    \* special handling for reading an enum
    ELSE IF target.kind = "enum" THEN
        LET made == enum_lookup(target, obj)
        IN  IF made.status = "ValueError"
            THEN JsonConversionError(
                     Msg("Invalid enum", "", <<>>, <<>>, <<>>, ""), loc, "ValueError")
            ELSE made
    ELSE IF obj.kind = "null" THEN
        IF origin(target) # NoneType /\ ~is_optional(target) THEN type_err ELSE Return(obj)
    ELSE IF obj.kind \in {"str", "int", "float", "bool"} THEN
        LET allowed_types == IF origin(target) = UnionForm
                                THEN type_args(target).args
                                ELSE << origin(target) >>
        IN  IF ~InSeq(type(obj), allowed_types) THEN type_err ELSE Return(obj)
    ELSE IF obj.kind = "list" THEN
        LET possibilities == list_possibilities(type_args(target))
            target2 == IF origin(target) = UnionForm THEN possibilities[1] ELSE target
            type_args2 == type_args(target2)
        IN  IF origin(target) = UnionForm /\ possibilities = <<>>
            THEN JsonConversionError(
                     Msg("Found, but was expecting one of", type(obj).name,
                         type_args(target).args, <<>>, <<>>, ""), loc, "")
            ELSE IF origin(target) = UnionForm /\ Len(possibilities) > 1
            THEN JsonConversionError(
                     Msg("Ambiguous list type when reading", "", possibilities, <<>>,
                         <<obj>>, ""), loc, "")
            \* inner_type = type_args[0], with type_args None
            ELSE IF type_args2 = NoArgs
            THEN Escapes("TypeError", "'NoneType' object is not subscriptable")
            ELSE read_elems(obj.items, type_args2.args[1], loc, 1, <<>>)
    ELSE IF obj.kind = "dict" THEN
        LET targets == IF origin(target) = UnionForm THEN type_args(target).args ELSE <<target>>
            possibilities == SelectSeq(targets, valid_type_for_dict)
            target2 == possibilities[1]
            type_args2 == type_args(target2)
            loc2 == IF endswith_dot(loc) THEN loc ELSE loc \o <<".">>
        IN  IF possibilities = <<>>
            THEN JsonConversionError(
                     Msg("Found, but was expecting", type(obj).name, targets, <<>>, <<>>, ""),
                     loc, "")
            ELSE IF Len(possibilities) > 1
            THEN JsonConversionError(
                     Msg("Ambiguous dict type when reading", "", possibilities, <<>>,
                         <<obj>>, ""), loc, "")
            ELSE IF origin(target2) = DictClass
            THEN \* key_type, value_type = type_args;  if type_args != str: raise
                 IF type_args2 # StrT
                 THEN JsonConversionError(
                          Msg("Json dict keys are always strings, but type annotation was",
                              "", <<type_args2.args[1]>>, <<>>, <<>>, ""), loc, "")
                 ELSE read_values(obj, type_args2.args[2], loc2, 1, <<>>)
            ELSE read_class_instance(obj, target2, loc)
    ELSE JsonConversionError(Msg("Invalid json", "", <<>>, <<>>, <<obj>>, ""), loc, "")

\* read(obj, target)
read(obj, target) == read_rec(obj, target, <<".">>)

\* obj.value of an enum member
enum_value(obj) ==
    LET ms == enum_members(obj.cls)
    IN  ms[CHOOSE i \in 1..Len(ms) : ms[i].name = obj.s].value

RECURSIVE write_rec(_, _)
RECURSIVE write_elems(_, _, _, _)
RECURSIVE write_values(_, _, _, _)

\* [write_rec(elem, loc + f"[{i}]") for i, elem in enumerate(obj)]
write_elems(items, loc, i, acc) ==
    IF i > Len(items)
    THEN Return(ListV(acc))
    ELSE LET r == write_rec(items[i], loc \o <<"[">> \o IntStr(i - 1) \o <<"]">>)
         IN  IF r.status # "ok" THEN r
             ELSE write_elems(items, loc, i + 1, Append(acc, r.val))

\* {key: write_rec(value, loc + key) for key, value in obj.items()}
write_values(obj, loc, i, acc) ==
    IF i > Len(obj.keys)
    THEN Return(DictV(obj.keys, acc))
    ELSE LET r == write_rec(obj.items[i], loc \o obj.keys[i].s)
         IN  IF r.status # "ok" THEN r
             ELSE write_values(obj, loc, i + 1, Append(acc, r.val))

write_class_instance(obj, loc) ==
    \* hasattr(obj, "__dict__")
    IF obj.kind = "obj" /\ class_repr(obj.cls) = "dict"
    THEN write_rec(DictV(obj.keys, obj.items), loc)
    \* NamedTuple doesn't have __dict__, but _asdict() instead
    ELSE IF obj.kind = "obj" /\ class_repr(obj.cls) = "namedtuple"
    THEN write_rec(DictV(obj.keys, obj.items), loc)
    ELSE JsonConversionError(Msg("Cannot write", "", <<>>, <<>>, <<obj>>, ""), loc, "")

write_rec(obj, loc) ==
    IF obj.kind \in {"null", "str", "int", "float", "bool"}
    THEN Return(obj)
    ELSE IF obj.kind = "enum"
    THEN Return(enum_value(obj))
    ELSE IF obj.kind = "list"
    THEN write_elems(obj.items, loc, 1, <<>>)
    ELSE IF obj.kind = "dict"
    THEN LET bad == bad_keys(obj)
             loc2 == IF endswith_dot(loc) THEN loc ELSE loc \o <<".">>
         IN  IF bad # <<>>
             THEN JsonConversionError(
                      Msg("Json dict keys are always strings, but found", "", <<>>,
                          bad, <<>>, ""), loc, "")
             ELSE write_values(obj, loc2, 1, <<>>)
    ELSE write_class_instance(obj, loc)

\* write(obj)
write(obj) == write_rec(obj, <<".">>)

(***************************************************************************)
(* The inputs: decoded json, targets, objects to write, and the location   *)
(* the (recursive) call is made at.                                        *)
(***************************************************************************)
\* The longest list and the largest dict among the generated inputs
MaxLen == 2

\* The longest path of keys and indices to a value that cannot be written
MaxPath == 3

Seqs(S, n) == UNION { [1..k -> S] : k \in 0..n }

DistinctSeqs(S, n) == { q \in Seqs(S, n) : \A i, j \in 1..Len(q) : q[i] = q[j] => i = j }

Leaves == { None, BoolV(TRUE), IntV(1), FloatV(1), StrV(<<"a">>) }

JsonLists == { ListV(q) : q \in Seqs(Leaves, MaxLen) }

KeyNames == { StrV(<<"s">>), StrV(<<"x">>), StrV(<<"y">>), StrV(<<"q">>) }

FieldVals == { StrV(<<"a">>), IntV(1) }

DictsOver(K, V) ==
    UNION { { DictV(ks, vs) : vs \in [1..Len(ks) -> V] } : ks \in DistinctSeqs(K, MaxLen) }

JsonDicts == DictsOver(KeyNames, FieldVals)

\* json for class C, right and wrong, and short lists of it
CDicts == { d \in JsonDicts : \A i \in 1..Len(d.keys) : d.keys[i] = StrV(<<"s">>) }

CLists == { ListV(q) : q \in Seqs(CDicts, MaxLen) }

\* json for class T: x and y present or absent, right or wrong
TDicts == { d \in JsonDicts : \A i \in 1..Len(d.keys) :
                                 d.keys[i] \in { StrV(<<"x">>), StrV(<<"y">>) } }

\* json for classes B and A
BDicts ==
    { DictV(<<StrV(<<"c", "s">>), StrV(<<"t">>)>>, <<l, t>>) :
          l \in { x \in CLists : Len(x.items) <= 1 }, t \in TDicts }
    \cup { DictV(<<StrV(<<"c", "s">>)>>, <<l>>) : l \in { x \in CLists : Len(x.items) <= 1 } }

ADicts == { DictV(<<StrV(<<"b">>)>>, <<b>>) : b \in BDicts }

\* json for class M, and other nestings of lists and dicts
Nested ==
    { DictV(<<StrV(<<"m">>)>>, <<d>>) : d \in { x \in JsonDicts : Len(x.keys) <= 1 } }
    \cup { ListV(<<l>>) : l \in JsonLists }

ShallowVals == Leaves \cup JsonLists \cup JsonDicts \cup Nested \cup { BytesV(<<"b">>) }

DeepVals == CLists \cup BDicts \cup ADicts

Classes == { "C", "T", "B", "A", "D", "M" }

BaseTypes == { NoneType, BoolT, IntT, FloatT, StrT, EnumT("E") }
             \cup { ClassT(c) : c \in Classes }

ElemTypes == { StrT, IntT, NoneType, ClassT("C"), OptionalOf(StrT) }

\* (Any is left out of unions: whether isinstance(Any, type) holds, line 32,
\* depends on the Python version.)
UnionAlts == << NoneType, IntT, StrT, FloatT, ClassT("C"), ClassT("T"), EnumT("E"),
                ListOf(StrT), ListOf(IntT), DictOf(StrT, IntT) >>

\* typing.Union keeps its arguments in order and drops duplicates
Unions == { UnionOf(<<UnionAlts[p[1]], UnionAlts[p[2]]>>) :
                p \in { q \in (1..Len(UnionAlts)) \X (1..Len(UnionAlts)) : q[1] < q[2] } }

Targets == { AnyT } \cup BaseTypes
           \cup { ListOf(t) : t \in ElemTypes }
           \cup { DictOf(StrT, t) : t \in ElemTypes }
           \cup Unions
           \cup { OptionalOf(StrT), OptionalOf(ClassT("C")),
                  UnionOf(<<ListOf(StrT), ListOf(IntT), NoneType>>),
                  UnionOf(<<ClassT("C"), DictOf(StrT, IntT), NoneType>>) }

DeepTargets == { AnyT, ClassT("A"), ClassT("B"), ListOf(ClassT("C")),
                 OptionalOf(ClassT("A")) }

\* The locations calls are made at: the root, and under a key
Locs == { <<".">>, <<".", "a">> }

(***************************************************************************)
(* Objects to write: json leaves, bytes, enum members, class instances,    *)
(* lists of them, dicts whose keys may not be strings, and nestings.       *)
(***************************************************************************)
Key(c) == StrV(<<c>>)

CObjs == { ObjV("C", <<Key("s")>>, <<v>>) : v \in { StrV(<<"a">>), StrV(<<"x">>) } }

TObjs == { ObjV("T", <<Key("x"), Key("y"), Key("z")>>, <<StrV(<<"a">>), IntV(y), z>>) :
               y \in {0, 1}, z \in { None, FloatV(1) } }

BObjs == { ObjV("B", <<StrV(<<"c", "s">>), Key("t")>>, <<ListV(q), t>>) :
               q \in Seqs(CObjs, MaxLen), t \in TObjs }

AObjs == { ObjV("A", <<Key("b")>>, <<b>>) : b \in BObjs }

DObjs == { ObjV("D", <<Key("x"), Key("y")>>, <<IntV(1), IntV(2)>>) }

MObjs == { ObjV("M", <<Key("m")>>, <<d>>) :
               d \in { DictV(<<>>, <<>>), DictV(<<Key("k")>>, <<IntV(1)>>) } }

EObjs == { EnumV("E", <<"A">>), EnumV("E", <<"B">>) }

Instances == CObjs \cup TObjs \cup BObjs \cup AObjs \cup DObjs \cup MObjs

WLeaves == Leaves \cup EObjs \cup { BytesV(<<"b">>) }

WLists == { ListV(q) : q \in Seqs(WLeaves, MaxLen) }

WKeys == { Key("a"), StrV(<<"a", ".">>), StrV(<<>>), BytesV(<<"b">>), None }

WDicts == DictsOver(WKeys, { IntV(1), BytesV(<<"b">>) })

WNested == { DictV(<<StrV(<<"i", "n", "n", "e", "r">>)>>, <<d>>) : d \in WDicts }
           \cup { ListV(<<d>>) : d \in WDicts }

WriteVals == WLeaves \cup WLists \cup WDicts \cup WNested

(***************************************************************************)
(* A value that cannot be written, nested under a path of steps: a step is *)
(* a dict key or a list index.                                             *)
(***************************************************************************)
KeyStep(k) == [is_key |-> TRUE, key |-> k, idx |-> 0]
IdxStep(i) == [is_key |-> FALSE, key |-> <<>>, idx |-> i]

Steps == { KeyStep(k) : k \in { <<"a">>, <<"a", ".">>, <<>> } }
         \cup { IdxStep(i) : i \in 0..(MaxLen - 1) }

Paths == Seqs(Steps, MaxPath)

Tail2(q) == SubSeq(q, 2, Len(q))

RECURSIVE Nest(_, _)
Nest(path, v) ==
    IF path = <<>> THEN v
    ELSE IF path[1].is_key
    THEN DictV(<<StrV(path[1].key)>>, <<Nest(Tail2(path), v)>>)
    ELSE ListV([i \in 1..(path[1].idx + 1) |->
                   IF i = path[1].idx + 1 THEN Nest(Tail2(path), v) ELSE IntV(1)])

Unwritable == BytesV(<<"b">>)

PathVals == { Nest(p, Unwritable) : p \in Paths }

(***************************************************************************)
(* The state: one conversion.  obj, target and loc are the arguments;      *)
(* pc is "start", then "read" (read_rec returned or raised: result), or    *)
(* "written" (write_rec returned or raised: written), then "reread" (the   *)
(* json just written was read back: result).                               *)
(***************************************************************************)
VARIABLES obj, target, loc, pc, result, written

vars == <<obj, target, loc, pc, result, written>>

NoResult == [status |-> "none", val |-> None, msg |-> NoMsg, loc |-> <<>>, cause |-> ""]

Init ==
    /\ pc = "start"
    /\ result = NoResult
    /\ written = NoResult
    /\ \/ obj \in ShallowVals /\ target \in Targets /\ loc \in Locs
       \/ obj \in DeepVals /\ target \in DeepTargets /\ loc = <<".">>
       \/ obj \in Instances /\ target = ClassT(obj.cls) /\ loc \in Locs
       \/ obj \in WriteVals /\ target = AnyT /\ loc \in Locs
       \/ obj \in PathVals /\ target = AnyT /\ loc = <<".">>

\* read_rec(obj, target, loc)
Read ==
    /\ pc = "start"
    /\ result' = read_rec(obj, target, loc)
    /\ pc' = "read"
    /\ UNCHANGED <<obj, target, loc, written>>

\* write_rec(obj, loc)
Write ==
    /\ pc = "start"
    /\ written' = write_rec(obj, loc)
    /\ pc' = "written"
    /\ UNCHANGED <<obj, target, loc, result>>

\* read_rec(write_rec(obj, loc), target, loc), once write_rec has returned
ReadBack ==
    /\ pc = "written"
    /\ written.status = "ok"
    /\ result' = read_rec(written.val, target, loc)
    /\ pc' = "reread"
    /\ UNCHANGED <<obj, target, loc, written>>

Next == Read \/ Write \/ ReadBack

Spec == Init /\ [][Next]_vars

(***************************************************************************)
(* What it is for a value to match a type (the data model), used to state  *)
(* the round trip.                                                         *)
(***************************************************************************)
\* The alternatives of a union a value can be read as, by its category alone
Candidates(v, alts) ==
    SelectSeq(alts, LAMBDA t :
        CASE v.kind \in {"null", "bool", "int", "float", "str"} ->
                 t.kind = "leaf" /\ t.name = (IF v.kind = "null" THEN "NoneType" ELSE v.kind)
          [] v.kind = "list" -> t.kind = "list"
          [] v.kind \in {"dict", "obj"} -> t.kind \in {"dict", "class"}
          [] OTHER -> FALSE)

RECURSIVE Matches(_, _)
Matches(v, t) ==
    CASE t.kind = "any" -> TRUE
      [] t.kind = "leaf" -> Candidates(v, <<t>>) # <<>>
      [] t.kind = "enum" -> v.kind = "enum" /\ v.cls = t.name
      [] t.kind = "list" ->
             v.kind = "list" /\ \A i \in 1..Len(v.items) : Matches(v.items[i], t.args[1])
      [] t.kind = "dict" ->
             /\ v.kind = "dict"
             /\ \A i \in 1..Len(v.keys) : v.keys[i].kind = "str"
             /\ \A i \in 1..Len(v.items) : Matches(v.items[i], t.args[2])
      [] t.kind = "class" ->
             /\ v.kind = "obj" /\ v.cls = t.name
             /\ Len(v.keys) = Len(annotations(t.name))
             /\ \A i \in 1..Len(v.keys) :
                    /\ v.keys[i] = StrV(annotations(t.name)[i].name)
                    /\ Matches(v.items[i], annotations(t.name)[i].ty)
      [] t.kind = "union" ->
             /\ Len(Candidates(v, t.args)) = 1
             /\ Matches(v, Candidates(v, t.args)[1])
      [] OTHER -> FALSE

RECURSIVE HasAny(_)
HasAny(t) ==
    \/ t.kind = "any"
    \/ t.kind \in {"list", "dict", "union"} /\ \E i \in 1..Len(t.args) : HasAny(t.args[i])
    \/ t.kind = "class" /\ \E i \in 1..Len(annotations(t.name)) :
                               HasAny(annotations(t.name)[i].ty)

\* Every instance in v exposes its fields, by __dict__ or by _asdict()
RECURSIVE Introspectable(_)
Introspectable(v) ==
    /\ v.kind = "obj" => class_repr(v.cls) \in {"dict", "namedtuple"}
    /\ \A i \in 1..Len(v.items) : Introspectable(v.items[i])

IsError(r, at) == r.status = "JsonConversionError" /\ r.loc = at

\* C1: Round trip.  For every class instance obj (of a class that exposes
\* its fields) matching a type target with no Any in it, write(obj) returns,
\* and reading what it returned against target returns a value equal to obj.
C1_RoundTrip ==
    (/\ obj.kind = "obj" /\ Introspectable(obj) /\ loc = <<".">>
     /\ Matches(obj, target) /\ ~HasAny(target))
        => /\ pc = "written" => written.status = "ok"
           /\ pc = "reread" => result = Return(obj)

\* The values of dict d all read against value_type, each at at + "." + key
ValuesRead(d, value_type, at) ==
    [i \in 1..Len(d.keys) |-> read_rec(d.items[i], value_type, at \o <<".">> \o d.keys[i].s)]

\* C2: Reading a dict against Dict[str, V] returns whenever every value reads
\* against V: the result is a dict of the same keys in the same order, each
\* value the result of reading the original value against V at
\* loc + "." + key.  The empty dict reads as the empty dict.
C2_MapOfRead ==
    (/\ pc = "read" /\ obj.kind = "dict" /\ target.kind = "dict"
     /\ \A i \in 1..Len(obj.keys) : ValuesRead(obj, target.args[2], loc)[i].status = "ok")
        => result = Return(DictV(obj.keys,
                                 [i \in 1..Len(obj.keys) |->
                                     ValuesRead(obj, target.args[2], loc)[i].val]))

\* C3: read returns a value or raises JsonConversionError, and nothing else
\* escapes; a list read against a leaf type or a class raises a type
\* mismatch JsonConversionError at the location of the list.
C3_OnlyConversionErrors ==
    pc \in {"read", "reread"}
        => /\ result.status \in {"ok", "JsonConversionError"}
           /\ (pc = "read" /\ obj.kind = "list" /\ target.kind \in {"leaf", "class"})
                  => IsError(result, loc) /\ result.msg.text = "Found, but was expecting"

\* The exact leaf type of a json leaf, by its kind
ExactType(v) == Ty("leaf", IF v.kind = "null" THEN "NoneType" ELSE v.kind, <<>>)

\* C4: Leaf exactness.  Reading a bool, int, float or str returns it
\* unchanged if and only if its exact type is the target or one of the
\* alternatives of a Union target; otherwise (bool for int, int for bool,
\* int for float, ...) it raises JsonConversionError at loc.
C4_LeafExactness ==
    (pc = "read" /\ obj.kind \in {"bool", "int", "float", "str"}
     /\ target.kind \notin {"any", "enum"})
        => IF \/ target = ExactType(obj)
              \/ target.kind = "union" /\ InSeq(ExactType(obj), target.args)
           THEN result = Return(obj)
           ELSE IsError(result, loc)

C4_Witness ==
    /\ pc = "read" /\ obj = BoolV(TRUE) /\ target = UnionOf(<<IntT, StrT>>)
    /\ IsError(result, loc)

\* A type that accepts None: type(None) itself, or a Union with it
AcceptsNone(t) == t = NoneType \/ (t.kind = "union" /\ InSeq(NoneType, t.args))

\* C5: Optional acceptance.  Reading None returns None when the target is
\* type(None) or a Union containing it, at the root or nested as a list
\* element; against any other target (not Any, not an enum) it raises
\* JsonConversionError at the location of that None.
C5_OptionalAcceptance ==
    /\ (pc = "read" /\ obj = None /\ target.kind \notin {"any", "enum"})
           => IF AcceptsNone(target) THEN result = Return(None) ELSE IsError(result, loc)
    /\ (/\ pc = "read" /\ obj.kind = "list" /\ Len(obj.items) >= 1
        /\ \A i \in 1..Len(obj.items) : obj.items[i] = None
        /\ target.kind = "list" /\ target.args[1].kind \notin {"any", "enum"})
           => IF AcceptsNone(target.args[1])
              THEN result = Return(obj)
              ELSE IsError(result, loc \o <<"[", "0", "]">>)

C5_Witness ==
    /\ pc = "read" /\ obj = ListV(<<None, None>>) /\ target = ListOf(OptionalOf(StrT))
    /\ result = Return(obj)

\* The alternatives of a union that are list types / that a dict may be read as
ListAlts(t) == SelectSeq(t.args, LAMBDA a : a.kind = "list")
DictAlts(t) == SelectSeq(t.args, LAMBDA a : a.kind \notin {"leaf", "list"})

\* C6: Union disambiguation is by category only.  A list read against a
\* Union with two or more list alternatives, and a dict read against a Union
\* with two or more dict-compatible alternatives, raise an ambiguity
\* JsonConversionError at the union's own location whatever they contain;
\* with no alternative of the value's category the read fails at the same
\* location.
C6_UnionAmbiguity ==
    (pc = "read" /\ target.kind = "union")
        => /\ (obj.kind = "list" /\ Len(ListAlts(target)) >= 2)
                  => /\ IsError(result, loc)
                     /\ result.msg.text = "Ambiguous list type when reading"
           /\ (obj.kind = "list" /\ Len(ListAlts(target)) = 0) => IsError(result, loc)
           /\ (obj.kind = "dict" /\ Len(DictAlts(target)) >= 2)
                  => /\ IsError(result, loc)
                     /\ result.msg.text = "Ambiguous dict type when reading"
           /\ (obj.kind = "dict" /\ Len(DictAlts(target)) = 0) => IsError(result, loc)

C6_Witness ==
    /\ pc = "read" /\ obj = ListV(<<StrV(<<"a">>)>>)
    /\ target = UnionOf(<<ListOf(StrT), ListOf(IntT)>>)
    /\ IsError(result, loc) /\ result.msg.text = "Ambiguous list type when reading"

\* The names of the fields of a class, as keys, in declaration order
FieldNames(cls) == [i \in 1..Len(annotations(cls)) |-> StrV(annotations(cls)[i].name)]

\* The location of the value under key k of a mapping at location at
ChildLoc(at, k) == IF at = <<".">> THEN at \o k ELSE at \o <<".">> \o k

\* The type of the field of class cls that key k names (k is a field name)
FieldType(cls, k) ==
    annotations(cls)[CHOOSE i \in 1..Len(annotations(cls)) : FieldNames(cls)[i] = k].ty

\* The values of dict d read as the fields of class cls, d at location at
FieldsRead(d, cls, at) ==
    [i \in 1..Len(d.keys) |->
        read_rec(d.items[i], FieldType(cls, d.keys[i]), ChildLoc(at, d.keys[i].s))]

\* Dict d has only fields of cls as keys, and all their values read
ReadsAsFields(d, cls, at) ==
    /\ d.kind = "dict"
    /\ \A i \in 1..Len(d.keys) : InSeq(d.keys[i], FieldNames(cls))
    /\ \A i \in 1..Len(d.keys) : FieldsRead(d, cls, at)[i].status = "ok"

\* A field the constructor requires is not among the keys of d
OmitsRequired(d, cls) ==
    \E i \in 1..Len(annotations(cls)) :
        annotations(cls)[i].required /\ ~InSeq(FieldNames(cls)[i], d.keys)

\* The instance built from the fields read from d, defaults for the others
Built(d, cls, at) ==
    ObjV(cls, FieldNames(cls),
         [i \in 1..Len(annotations(cls)) |->
             IF InSeq(FieldNames(cls)[i], d.keys)
             THEN FieldsRead(d, cls, at)[CHOOSE k \in 1..Len(d.keys) :
                                             d.keys[k] = FieldNames(cls)[i]].val
             ELSE annotations(cls)[i].default])

\* r is the failure of constructing cls from the fields read from d at at
CreationFailed(r, d, cls, at) ==
    /\ IsError(r, at)
    /\ r.msg.text = "Object creation failed"
    /\ r.msg.cls = cls
    /\ r.msg.keys = d.keys
    /\ r.msg.vals = [i \in 1..Len(d.keys) |-> FieldsRead(d, cls, at)[i].val]
    /\ r.cause = "TypeError"

\* C7: Record construction failure.  When a dict has only known keys and
\* all its values read, but a required field is omitted, read raises
\* JsonConversionError exactly at the record's own location (".b.t" for the
\* record under t under b), naming the class and the fields supplied, with
\* the constructor's TypeError as its cause; when every omitted field has a
\* default the read returns the instance with the defaults filled in.
C7_CreationFailure ==
    /\ (pc = "read" /\ target.kind = "class" /\ ReadsAsFields(obj, target.name, loc))
           => IF OmitsRequired(obj, target.name)
              THEN CreationFailed(result, obj, target.name, loc)
              ELSE result = Return(Built(obj, target.name, loc))
    /\ (/\ pc = "read" /\ target = ClassT("A") /\ obj.kind = "dict"
        /\ obj.keys = <<StrV(<<"b">>)>>
        /\ obj.items[1].kind = "dict"
        /\ obj.items[1].keys = <<StrV(<<"c", "s">>), StrV(<<"t">>)>>
        /\ read_rec(obj.items[1].items[1], ListOf(ClassT("C")),
                    loc \o <<"b", ".", "c", "s">>).status = "ok"
        /\ ReadsAsFields(obj.items[1].items[2], "T", loc \o <<"b", ".", "t">>)
        /\ OmitsRequired(obj.items[1].items[2], "T"))
           => CreationFailed(result, obj.items[1].items[2], "T", <<".", "b", ".", "t">>)

C7_Witness ==
    /\ pc = "read" /\ target = ClassT("A")
    /\ obj = DictV(<<StrV(<<"b">>)>>,
                   <<DictV(<<StrV(<<"c", "s">>), StrV(<<"t">>)>>,
                           <<ListV(<<>>), DictV(<<StrV(<<"y">>)>>, <<IntV(1)>>)>>)>>)
    /\ IsError(result, <<".", "b", ".", "t">>)
    /\ result.msg.text = "Object creation failed"
    /\ result.cause = "TypeError"

\* The class a dict is read as: the target, or the one dict-compatible
\* alternative of a Union target
ResolvedClass(t) ==
    IF t.kind = "union" /\ Len(DictAlts(t)) = 1 THEN DictAlts(t)[1] ELSE t

\* The keys of d that are no field of cls, in d's order
UnknownKeys(d, cls) == SelectSeq(d.keys, LAMBDA k : ~InSeq(k, FieldNames(cls)))

\* C8: Unknown field rejection.  Reading a dict against a class fails when
\* the dict has a key that is no field of the class: JsonConversionError at
\* the record's own location, naming all unknown keys in the dict's order and
\* the class's full field set, whatever the values of the known fields are
\* and whether or not a required field is missing.
C8_UnknownField ==
    (/\ pc = "read" /\ obj.kind = "dict" /\ ResolvedClass(target).kind = "class"
     /\ UnknownKeys(obj, ResolvedClass(target).name) # <<>>)
        => /\ IsError(result, loc)
           /\ result.msg.text = "Unknown attributes. Was expecting, but found"
           /\ result.msg.keys = UnknownKeys(obj, ResolvedClass(target).name)
           /\ result.msg.vals = FieldNames(ResolvedClass(target).name)

C8_Witness ==
    /\ pc = "read" /\ target = ClassT("C")
    /\ obj = DictV(<<StrV(<<"s">>), StrV(<<"q">>)>>, <<IntV(1), StrV(<<"a">>)>>)
    /\ IsError(result, loc)
    /\ result.msg.keys = <<StrV(<<"q">>)>>
    /\ result.msg.vals = <<StrV(<<"s">>)>>

\* The keys of d that are not strings, in d's order
NonStringKeys(d) == SelectSeq(d.keys, LAMBDA k : k.kind # "str")

\* w is the rejection of dict d, at location at, for its non-string keys
KeysRejected(w, d, at) ==
    /\ IsError(w, at)
    /\ w.msg.text = "Json dict keys are always strings, but found"
    /\ w.msg.keys = NonStringKeys(d)

\* C9: Non-string key rejection on write.  Writing a dict with a non-string
\* key, at the top or nested under a key or in a list, raises
\* JsonConversionError at that dict's own location, naming every non-string
\* key in order, whatever values the dict holds (unwritable ones included).
C9_NonStringKeys ==
    pc = "written"
        => /\ (obj.kind = "dict" /\ NonStringKeys(obj) # <<>>)
                  => KeysRejected(written, obj, loc)
           /\ (/\ obj.kind = "dict" /\ Len(obj.keys) = 1 /\ obj.keys[1].kind = "str"
               /\ obj.items[1].kind = "dict" /\ NonStringKeys(obj.items[1]) # <<>>)
                  => KeysRejected(written, obj.items[1], ChildLoc(loc, obj.keys[1].s))
           /\ (/\ obj.kind = "list" /\ Len(obj.items) = 1
               /\ obj.items[1].kind = "dict" /\ NonStringKeys(obj.items[1]) # <<>>)
                  => KeysRejected(written, obj.items[1], loc \o <<"[", "0", "]">>)

C9_Witness ==
    /\ pc = "written" /\ loc = <<".">>
    /\ obj = DictV(<<StrV(<<"i", "n", "n", "e", "r">>)>>,
                   <<DictV(<<BytesV(<<"b">>), None>>, <<BytesV(<<"b">>), IntV(1)>>)>>)
    /\ IsError(written, <<".", "i", "n", "n", "e", "r">>)
    /\ written.msg.keys = <<BytesV(<<"b">>), None>>

\* The location of the node a path of steps leads to from the root
RECURSIVE Render(_)
Render(path) ==
    IF path = <<>> THEN <<".">>
    ELSE LET parent == Render(SubSeq(path, 1, Len(path) - 1))
             step == path[Len(path)]
         IN  IF step.is_key
             THEN (IF Len(path) = 1 THEN parent ELSE parent \o <<".">>) \o step.key
             ELSE parent \o <<"[">> \o IntStr(step.idx) \o <<"]">>

\* The index (from 1) of the first element of list l that is not of leaf
\* type t, 0 if all are
FirstMismatch(l, t) ==
    IF \A i \in 1..Len(l.items) : ExactType(l.items[i]) = t THEN 0
    ELSE CHOOSE i \in 1..Len(l.items) :
             /\ ExactType(l.items[i]) # t
             /\ \A j \in 1..(i - 1) : ExactType(l.items[j]) = t

ResolvedList(t) ==
    IF t.kind = "union" /\ Len(ListAlts(t)) = 1 THEN ListAlts(t)[1] ELSE t

\* C11: Read soundness.  Whenever read returns for a target other than Any,
\* the value's category agrees with the type it was read as: a list is
\* accepted only for a List target or a Union with exactly one List
\* alternative, and then every element reads against the element type; a
\* list is never accepted for a Dict, class or leaf target, and a dict is
\* never accepted for a List or leaf target.
C11_ReadSoundness ==
    (pc = "read" /\ result.status = "ok" /\ target # AnyT)
        => /\ obj.kind = "list"
                  => /\ ResolvedList(target).kind = "list"
                     /\ \A i \in 1..Len(obj.items) :
                            read_rec(obj.items[i], ResolvedList(target).args[1],
                                     loc \o <<"[">> \o IntStr(i - 1) \o <<"]">>).status = "ok"
           /\ obj.kind = "dict" => target.kind \notin {"list", "leaf"}

====
